---- MODULE Spec2Model ----
(***************************************************************************)
(* Model of app.py: the temperature analysis pipeline (rolling mean,       *)
(* per-(city, season) statistics, anomaly detection) and the live-reading  *)
(* classification of main().                                               *)
(*                                                                         *)
(* Numbers are exact rationals [n, d] in lowest terms with d > 0; the      *)
(* record with d = 0 is NaN (pandas' absent value).  A standard deviation  *)
(* is kept as its square, [sq |-> variance], and every comparison with     *)
(* mean +/- 2*std is decided on squares, so no rounding enters the model.  *)
(***************************************************************************)
EXTENDS Integers, Sequences, FiniteSets, TLC

VARIABLES file, window, pc, data, seasonal_stats, anomalies, second,
          city, api_key, current_temp, error_message, shown

vars == <<file, window, pc, data, seasonal_stats, anomalies, second,
          city, api_key, current_temp, error_message, shown>>

-----------------------------------------------------------------------------
(* Bounds of the explored inputs *)

MaxLen == 3
MaxBlockLen == 6
NDays == 35

(* default of smooth_temperature's window parameter *)
DefaultWindow == 30

(* labels in ascending lexicographic order, the order groupby sorts keys in *)
Cities == <<"A", "B">>
Seasons == <<"summer", "winter">>

CitySet == {Cities[i] : i \in 1..Len(Cities)}
SeasonSet == {Seasons[i] : i \in 1..Len(Seasons)}

Temps == {0, 3}
BlockTemps == {-3, 0, 3}
ScenarioTemps == {50}
Lives == {1, 5}
TsModes == {"asc", "desc"}
Windows == {1, 2}
ApiKeys == {"", "key"}
Messages == {"city not found"}

-----------------------------------------------------------------------------
(* Exact arithmetic with NaN *)

NaN == [n |-> 0, d |-> 0]

IsNaN(x) == x.d = 0

Abs(k) == IF k < 0 THEN -k ELSE k

RECURSIVE GCD(_, _)
GCD(a, b) == IF b = 0 THEN a ELSE GCD(b, a % b)

Rat(n, d) ==
    IF d = 0 THEN NaN
    ELSE LET g == GCD(Abs(n), d)
         IN  [n |-> n \div g, d |-> d \div g]

FromInt(k) == [n |-> k, d |-> 1]

(* the two numerators over the least common denominator *)
Common(a, b) ==
    LET g == GCD(a.d, b.d)
    IN  [x |-> a.n * (b.d \div g), y |-> b.n * (a.d \div g),
         d |-> a.d * (b.d \div g)]

RAdd(a, b) == IF IsNaN(a) \/ IsNaN(b) THEN NaN
              ELSE Rat(Common(a, b).x + Common(a, b).y, Common(a, b).d)

RSub(a, b) == IF IsNaN(a) \/ IsNaN(b) THEN NaN
              ELSE Rat(Common(a, b).x - Common(a, b).y, Common(a, b).d)

RMul(a, b) == IF IsNaN(a) \/ IsNaN(b) THEN NaN
              ELSE Rat(a.n * b.n, a.d * b.d)

RDivInt(a, k) == IF IsNaN(a) \/ k = 0 THEN NaN ELSE Rat(a.n, a.d * k)

(* comparisons: any comparison with NaN is false *)
RLt(a, b) == ~IsNaN(a) /\ ~IsNaN(b) /\ Common(a, b).x < Common(a, b).y
RLe(a, b) == ~IsNaN(a) /\ ~IsNaN(b) /\ Common(a, b).x <= Common(a, b).y

(* the sum of s[lo..hi], added pairwise *)
RECURSIVE SumRange(_, _, _)
SumRange(s, lo, hi) ==
    IF lo > hi THEN FromInt(0)
    ELSE IF lo = hi THEN s[lo]
    ELSE LET mid == (lo + hi) \div 2
         IN  RAdd(SumRange(s, lo, mid), SumRange(s, mid + 1, hi))

SumSeq(s) == SumRange(s, 1, Len(s))

RECURSIVE Concat(_)
Concat(ss) == IF ss = <<>> THEN <<>> ELSE Head(ss) \o Concat(Tail(ss))

(* x < mean - 2*std *)
BelowBand(x, mean, std) ==
    /\ RLt(x, mean)
    /\ RLt(RMul(FromInt(4), std.sq), RMul(RSub(mean, x), RSub(mean, x)))

(* x > mean + 2*std *)
AboveBand(x, mean, std) ==
    /\ RLt(mean, x)
    /\ RLt(RMul(FromInt(4), std.sq), RMul(RSub(x, mean), RSub(x, mean)))

(* abs(x - mean) <= 2*std *)
WithinBand(x, mean, std) ==
    RLe(RMul(RSub(x, mean), RSub(x, mean)), RMul(FromInt(4), std.sq))

-----------------------------------------------------------------------------
(* Uploaded files: rows of (city, timestamp, season, temperature) *)

Stamp(i, n, m) == IF m = "asc" THEN i ELSE n + 1 - i

RowChoices == CitySet \X SeasonSet \X Temps

SmallFile(f, n) ==
    [i \in 1..n |-> [city |-> f[i][1], timestamp |-> i,
                     season |-> f[i][2], temperature |-> f[i][3]]]

(* every file of at most MaxLen rows, in chronological order *)
SmallFiles ==
    UNION { { SmallFile(f, n) : f \in [1..n -> RowChoices] } : n \in 0..MaxLen }

Blocks == [city : CitySet, season : SeasonSet, len : 0..MaxBlockLen,
           first : BlockTemps]

(* a run of rows of one (city, season): the first row carries the spike *)
BlockRows(b, offset) ==
    [i \in 1..b.len |-> [city |-> b.city, timestamp |-> offset + i,
                         season |-> b.season,
                         temperature |-> IF i = 1 THEN b.first ELSE 0]]

(* two runs one after the other, in chronological order *)
BlockFiles ==
    { BlockRows(b1, 0) \o BlockRows(b2, b1.len) : b1 \in Blocks, b2 \in Blocks }

(* the day of the one record of a long file that is not 0 (0: none) *)
SpikeDays == {0, 1, 20, NDays}

(* the day the season of a long file turns from "summer" to "winter" *)
SeasonSplits == {1, NDays - 2}

(* nothing, or one more row of any city and season, after the daily rows *)
Tails ==
    {<<>>} \cup { <<[city |-> c, season |-> s]>> : c \in CitySet, s \in SeasonSet }

(* NDays consecutive daily records of city "A", all 0 but the one of `day`,
   followed by `tail`, stamped oldest first or newest first *)
LongFile(day, t, split, tail, m) ==
    [i \in 1..(NDays + Len(tail)) |->
        IF i <= NDays
        THEN [city |-> "A", timestamp |-> Stamp(i, NDays + Len(tail), m),
              season |-> IF i < split THEN "summer" ELSE "winter",
              temperature |-> IF i = day THEN t ELSE 0]
        ELSE [city |-> tail[1].city,
              timestamp |-> Stamp(i, NDays + Len(tail), m),
              season |-> tail[1].season, temperature |-> 0]]

(* NDays consecutive daily records of city "A" in "winter", all 0 but one *)
Scenario(day, t) == LongFile(day, t, 1, <<>>, "asc")

LongFiles ==
    { LongFile(day, t, split, tail, m) :
        day \in SpikeDays, t \in ScenarioTemps, split \in SeasonSplits,
        tail \in Tails, m \in TsModes }

-----------------------------------------------------------------------------
(* The functions of app.py *)

(* read_csv: rows get the labels 0..n-1 and float temperatures *)
load_data(f) ==
    [i \in 1..Len(f) |-> [idx |-> i - 1, city |-> f[i].city,
                          timestamp |-> f[i].timestamp,
                          season |-> f[i].season,
                          temperature |-> FromInt(f[i].temperature)]]

Column(d) == [i \in 1..Len(d) |-> d[i].temperature]

(* rolling(window).mean() at row i: absent unless the window holds
   `w` present values *)
RollingZeroFill(col, w, i) ==
    IF i < w \/ \E j \in (i - w + 1)..i : IsNaN(col[j])
    THEN FromInt(0)
    ELSE RDivInt(SumSeq(SubSeq(col, i - w + 1, i)), w)

RollingMean(col, w, i) ==
    IF i < w \/ \E j \in (i - w + 1)..i : IsNaN(col[j])
    THEN NaN
    ELSE RDivInt(SumSeq(SubSeq(col, i - w + 1, i)), w)

smooth_temperature(d, w) ==
    [i \in 1..Len(d) |->
        [d[i] EXCEPT !.temperature = RollingMean(Column(d), w, i)]]

Present(vals) == SelectSeq(vals, LAMBDA x : ~IsNaN(x))

(* Series.mean(): absent values are skipped *)
MeanZeroFill(vals) ==
    IF Len(vals) = 0 THEN NaN
    ELSE RDivInt(SumSeq([i \in 1..Len(vals) |->
                            IF IsNaN(vals[i]) THEN FromInt(0) ELSE vals[i]]),
                 Len(vals))

Mean(vals) ==
    LET p == Present(vals)
    IN  IF Len(p) = 0 THEN NaN ELSE RDivInt(SumSeq(p), Len(p))

(* Series.std(): sample standard deviation (ddof = 1) of the present values *)
StdPopulation(vals) ==
    LET p   == Present(vals)
        n   == Len(p)
        avg == RDivInt(SumSeq(p), n)
        sqr == SumSeq([i \in 1..n |->
                          RMul(RSub(avg, p[i]), RSub(avg, p[i]))])
    IN  IF n < 2 THEN [sq |-> NaN] ELSE [sq |-> RDivInt(sqr, n)]

Std(vals) ==
    LET p   == Present(vals)
        n   == Len(p)
        avg == RDivInt(SumSeq(p), n)
        sqr == SumSeq([i \in 1..n |->
                          RMul(RSub(avg, p[i]), RSub(avg, p[i]))])
    IN  IF n - 1 <= 0 THEN [sq |-> NaN] ELSE [sq |-> RDivInt(sqr, n - 1)]

KeyOrder ==
    [k \in 1..(Len(Cities) * Len(Seasons)) |->
        <<Cities[((k - 1) \div Len(Seasons)) + 1],
          Seasons[((k - 1) % Len(Seasons)) + 1]>>]

GroupKeysUnsorted(d) ==
    LET first == {i \in 1..Len(d) :
                    \A j \in 1..(i - 1) :
                        d[j].city # d[i].city \/ d[j].season # d[i].season}
    IN  [n \in 1..Cardinality(first) |->
            LET i == CHOOSE i \in first :
                        Cardinality({j \in first : j < i}) = n - 1
            IN  <<d[i].city, d[i].season>>]

(* groupby(['city', 'season']): the keys present, sorted *)
GroupKeys(d) ==
    SelectSeq(KeyOrder,
              LAMBDA k : \E i \in 1..Len(d) :
                              d[i].city = k[1] /\ d[i].season = k[2])

Group(d, k) == SelectSeq(d, LAMBDA r : r.city = k[1] /\ r.season = k[2])

calculate_seasonal_statistics(d) ==
    LET keys == GroupKeys(d)
    IN  [j \in 1..Len(keys) |->
            [city |-> keys[j][1], season |-> keys[j][2],
             mean |-> Mean(Column(Group(d, keys[j]))),
             std |-> Std(Column(Group(d, keys[j])))]]

AnomalyConditionNegated(x, mean, std) ==
    ~WithinBand(x, mean, std)

anomaly_condition(x, mean, std) ==
    BelowBand(x, mean, std) \/ AboveBand(x, mean, std)

find_anomalies(d) ==
    LET keys == GroupKeys(d)
        flagged(k) ==
            LET group == Group(d, k)
                mean  == Mean(Column(group))
                std   == Std(Column(group))
            IN  SelectSeq(group,
                    LAMBDA r : anomaly_condition(r.temperature, mean, std))
    IN  IF Len(keys) = 0
        THEN [raised |-> TRUE, rows |-> <<>>]
        ELSE [raised |-> FALSE,
              rows |-> Concat([j \in 1..Len(keys) |-> flagged(keys[j])])]

get_current_temperature(response) ==
    IF response.status_code = 200
    THEN [temp |-> <<response.temp>>, error |-> <<>>]
    ELSE [temp |-> <<>>, error |-> <<response.message>>]

NotShown ==
    [rendered |-> FALSE, data |-> <<>>, seasonal_stats |-> <<>>,
     anomalies |-> <<>>, current_temp |-> <<>>, status |-> "", error |-> ""]

display_results(d, stats, anoms, temp, is_normal) ==
    [rendered |-> TRUE, data |-> d, seasonal_stats |-> stats,
     anomalies |-> anoms, current_temp |-> temp,
     status |-> IF temp # <<>>
                THEN (IF is_normal THEN "normal" ELSE "anomalous")
                ELSE "unavailable",
     error |-> ""]

MaxStamp(d) ==
    CHOOSE t \in {d[i].timestamp : i \in 1..Len(d)} :
        \A i \in 1..Len(d) : d[i].timestamp <= t

CurrentSeasonOfFile(d) ==
    SelectSeq(file, LAMBDA r : r.timestamp = MaxStamp(file))[1].season

(* season of the first row carrying the maximal timestamp *)
CurrentSeason(d) ==
    SelectSeq(d, LAMBDA r : r.timestamp = MaxStamp(d))[1].season

Responses ==
    [status_code : {200}, temp : Lives, message : {""}]
    \cup [status_code : {404}, temp : {0}, message : Messages]

-----------------------------------------------------------------------------
(* The state machine *)

Init ==
    /\ file \in SmallFiles \cup BlockFiles \cup LongFiles
    /\ window = DefaultWindow
    /\ pc = "start"
    /\ data = <<>>
    /\ seasonal_stats = <<>>
    /\ anomalies = <<>>
    /\ second = [seasonal_stats |-> <<>>, anomalies |-> <<>>]
    /\ city = ""
    /\ api_key = ""
    /\ current_temp = <<>>
    /\ error_message = <<>>
    /\ shown = NotShown

(* analyze_temperature_data(uploaded_file): smooth_temperature is called
   without a window, so with its default *)
Analyze ==
    /\ pc = "start"
    /\ LET smoothed == smooth_temperature(load_data(file), DefaultWindow)
           found    == find_anomalies(smoothed)
       IN  IF found.raised
           THEN /\ pc' = "crashed"
                /\ UNCHANGED <<data, seasonal_stats, anomalies>>
           ELSE /\ pc' = "analyzed"
                /\ data' = smoothed
                /\ seasonal_stats' = calculate_seasonal_statistics(smoothed)
                /\ anomalies' = found.rows
    /\ UNCHANGED <<file, window, second, city, api_key, current_temp,
                   error_message, shown>>

(* the three functions called directly on the loaded frame, with an
   explicit window: smooth_temperature(data, w), then
   calculate_seasonal_statistics(data) and find_anomalies(data) *)
Pipeline(w) ==
    /\ pc = "start"
    /\ window' = w
    /\ LET smoothed == smooth_temperature(load_data(file), w)
           found    == find_anomalies(smoothed)
       IN  IF found.raised
           THEN /\ pc' = "crashed"
                /\ UNCHANGED <<data, seasonal_stats, anomalies>>
           ELSE /\ pc' = "computed"
                /\ data' = smoothed
                /\ seasonal_stats' = calculate_seasonal_statistics(smoothed)
                /\ anomalies' = found.rows
    /\ UNCHANGED <<file, second, city, api_key, current_temp,
                   error_message, shown>>

(* the three functions applied once more, with the same window, to the
   frame the first run worked on: smooth_temperature assigns the column of
   the frame it is given *)
Reanalyze ==
    /\ pc \in {"analyzed", "computed"}
    /\ LET smoothed == smooth_temperature(data, window)
       IN  /\ data' = smoothed
           /\ second' = [seasonal_stats |->
                             calculate_seasonal_statistics(smoothed),
                         anomalies |-> find_anomalies(smoothed).rows]
    /\ pc' = "reanalyzed"
    /\ UNCHANGED <<file, window, seasonal_stats, anomalies, city, api_key,
                   current_temp, error_message, shown>>

(* main(): the city and API key widgets and the three filters *)
SelectCity(c, k) ==
    /\ pc = "analyzed"
    /\ \E i \in 1..Len(data) : data[i].city = c
    /\ city' = c
    /\ api_key' = k
    /\ data' = SelectSeq(data, LAMBDA r : r.city = c)
    /\ seasonal_stats' = SelectSeq(seasonal_stats, LAMBDA r : r.city = c)
    /\ anomalies' = SelectSeq(anomalies, LAMBDA r : r.city = c)
    /\ pc' = IF k = "" THEN "done" ELSE "selected"
    /\ UNCHANGED <<file, window, second, current_temp, error_message, shown>>

(* main(): the live reading, its classification and the display *)
Live(response) ==
    /\ pc = "selected"
    /\ LET got == get_current_temperature(response)
       IN  /\ current_temp' = got.temp
           /\ error_message' = got.error
           /\ IF got.temp # <<>>
              THEN LET current_season == CurrentSeason(data)
                       rows == SelectSeq(seasonal_stats,
                                   LAMBDA r : r.season = current_season)
                   IN  IF rows = <<>>
                       THEN pc' = "crashed" /\ shown' = shown
                       ELSE /\ pc' = "done"
                            /\ shown' = display_results(data, seasonal_stats,
                                   anomalies, got.temp,
                                   WithinBand(FromInt(got.temp[1]),
                                              rows[1].mean, rows[1].std))
              ELSE /\ pc' = "done"
                   /\ shown' = [shown EXCEPT !.error = got.error[1]]
    /\ UNCHANGED <<file, window, data, seasonal_stats, anomalies, second,
                   city, api_key>>

Next ==
    \/ Analyze
    \/ \E w \in Windows : Pipeline(w)
    \/ Reanalyze
    \/ \E c \in CitySet, k \in ApiKeys : SelectCity(c, k)
    \/ \E response \in Responses : Live(response)

Spec == Init /\ [][Next]_vars

-----------------------------------------------------------------------------
(* Reference definitions the properties are stated with.  They work on     *)
(* integers: after one smoothing every present temperature is k / window,  *)
(* and a group's mean and variance are written with the sums S of k and Q  *)
(* of k*k over its n present rows:                                         *)
(*     mean = S / (n * window)                                             *)
(*     variance = (n*Q - S*S) / (n * (n-1) * window * window)              *)

Rows == 1..Len(data)

(* the statistics and the anomalies of the whole frame have been computed *)
Computed == pc \in {"analyzed", "computed"}

IsPresent(i) == ~IsNaN(data[i].temperature)

(* k, the temperature of row i of the frame in units of 1 / window *)
Scaled(i) == data[i].temperature.n * (window \div data[i].temperature.d)

SameGroup(i, j) ==
    data[i].city = data[j].city /\ data[i].season = data[j].season

PresentIn(c, s) ==
    {j \in Rows : data[j].city = c /\ data[j].season = s /\ IsPresent(j)}

(* the sum over the rows lo..hi that are in `members` of k (p = 1) or of
   k*k (p = 2) *)
RECURSIVE PowerSum(_, _, _, _)
PowerSum(members, p, lo, hi) ==
    IF lo > hi THEN 0
    ELSE IF lo = hi
         THEN (IF lo \notin members THEN 0
               ELSE IF p = 1 THEN Scaled(lo) ELSE Scaled(lo) * Scaled(lo))
    ELSE LET mid == (lo + hi) \div 2
         IN  PowerSum(members, p, lo, mid) + PowerSum(members, p, mid + 1, hi)

Count(c, s) == Cardinality(PresentIn(c, s))
S1(c, s) == PowerSum(PresentIn(c, s), 1, 1, Len(data))
S2(c, s) == PowerSum(PresentIn(c, s), 2, 1, Len(data))

BaselineDefined(c, s) == Count(c, s) >= 2

(* |k / window - mean| > 2 * stddev, for a value k / window *)
Deviates(k, c, s) ==
    LET n == Count(c, s)
        dev == n * k - S1(c, s)
    IN  /\ n >= 2
        /\ (n - 1) * dev * dev > 4 * n * (n * S2(c, s) - S1(c, s) * S1(c, s))

Flagged(i) == \E a \in 1..Len(anomalies) : anomalies[a] = data[i]

Rank(label, order) == CHOOSE i \in 1..Len(order) : order[i] = label

KeyBefore(a, b) ==
    \/ Rank(a.city, Cities) < Rank(b.city, Cities)
    \/ /\ a.city = b.city
       /\ Rank(a.season, Seasons) < Rank(b.season, Seasons)

(* the rows of the uploaded file of row i's city, up to and including i *)
SameCityUpTo(i) ==
    SelectSeq([j \in 1..i |-> j], LAMBDA j : file[j].city = file[i].city)

(* the sum of the raw temperatures of the rows js[lo..hi] *)
RECURSIVE RawSum(_, _, _)
RawSum(js, lo, hi) ==
    IF lo > hi THEN 0
    ELSE IF lo = hi THEN file[js[lo]].temperature
    ELSE LET mid == (lo + hi) \div 2
         IN  RawSum(js, lo, mid) + RawSum(js, mid + 1, hi)

(* mean of the raw temperatures of the `window` trailing rows of i's city *)
TrailingCityMean(i) ==
    LET js == SameCityUpTo(i)
    IN  Rat(RawSum(js, Len(js) - window + 1, Len(js)), window)

(* the season of the latest row of city c in the uploaded file *)
LatestSeasonOf(c) ==
    LET mine == {j \in 1..Len(file) : file[j].city = c}
        last == CHOOSE j \in mine :
                    \A k \in mine : file[k].timestamp <= file[j].timestamp
    IN  file[last].season

LatestSeasonOfFile ==
    LET last == CHOOSE j \in 1..Len(file) :
                    \A k \in 1..Len(file) :
                        file[k].timestamp <= file[j].timestamp
    IN  file[last].season

FetchedOk == pc \in {"done", "crashed"} /\ current_temp # <<>>

SpikeScenario == Scenario(20, 50)

-----------------------------------------------------------------------------
(* C1: every smoothed value of a row with at least `window` rows of its    *)
(* own city up to itself is the mean of the raw temperatures of the        *)
(* `window` trailing rows of that city; other cities do not contribute.    *)
C1_PerCitySmoothing ==
    Computed =>
        \A i \in Rows :
            Len(SameCityUpTo(i)) >= window =>
                data[i].temperature = TrailingCityMean(i)

(* C2: a row is in the output of find_anomalies iff its smoothed value     *)
(* lies more than two sample standard deviations from the mean of its      *)
(* (city, season) group.                                                   *)
C2_FlaggedIffDeviates ==
    Computed =>
        \A i \in Rows :
            Flagged(i) <=>
                /\ IsPresent(i)
                /\ Deviates(Scaled(i), data[i].city, data[i].season)

C2_Witness ==
    /\ Computed
    /\ \E i, j \in Rows :
          /\ SameGroup(i, j)
          /\ IsPresent(i) /\ Flagged(i)
          /\ IsPresent(j) /\ ~Flagged(j)

(* C3: a fetched reading whose season has no defined baseline is reported  *)
(* as indeterminate.                                                       *)
C3_IndeterminateWithoutBaseline ==
    (FetchedOk /\ ~BaselineDefined(city, LatestSeasonOf(city))) =>
        pc = "done" /\ shown.status = "indeterminate"

(* C4: after a failed fetch the provider's message is shown and the        *)
(* historical results are still presented, unchanged.                      *)
C4_HistoryShownOnFetchError ==
    (pc = "done" /\ error_message # <<>>) =>
        /\ shown.error = error_message[1]
        /\ shown.rendered
        /\ shown.data = data
        /\ shown.seasonal_stats = seasonal_stats
        /\ shown.anomalies = anomalies

(* C5: a (city, season) group of fewer than 2 records contributes no row   *)
(* to the output of find_anomalies, and find_anomalies does not raise on   *)
(* a dataset that holds such a group.                                      *)
C5_SmallGroupNeverFlagged ==
    (Computed \/ pc = "crashed") =>
        \A i \in 1..Len(file) :
            Cardinality({j \in 1..Len(file) :
                            /\ file[j].city = file[i].city
                            /\ file[j].season = file[i].season}) < 2
            => /\ Computed
               /\ \A a \in 1..Len(anomalies) : anomalies[a].idx # i - 1

C5_Witness ==
    /\ Computed
    /\ anomalies # <<>>
    /\ \E i \in Rows : IsPresent(i) /\ \A j \in Rows : SameGroup(i, j) => j = i

(* C6 as stated: the output of find_anomalies is in the order of the       *)
(* input dataset.                                                          *)
C6_InputOrder ==
    Computed =>
        \A p, q \in 1..Len(anomalies) :
            p < q => anomalies[p].idx < anomalies[q].idx

(* C6 amended: the output of find_anomalies lists the flagged rows group   *)
(* by group in ascending (city, season) order, and in the order of the     *)
(* input dataset within one group.                                         *)
C6_GroupThenInputOrder ==
    Computed =>
        \A p, q \in 1..Len(anomalies) :
            p < q =>
                \/ KeyBefore(anomalies[p], anomalies[q])
                \/ /\ anomalies[p].city = anomalies[q].city
                   /\ anomalies[p].season = anomalies[q].season
                   /\ anomalies[p].idx < anomalies[q].idx

C6_Witness ==
    /\ Computed
    /\ \E p, q \in 1..Len(anomalies) :
          p < q /\ anomalies[p].idx > anomalies[q].idx

(* C7 as stated: on the 35-day scenario with the spike at day 20 and the   *)
(* default window, exactly one row is flagged.                             *)
C7_OneAnomaly ==
    (pc = "analyzed" /\ file = SpikeScenario /\ window = DefaultWindow) =>
        Len(anomalies) = 1

(* C7 amended: on that scenario no row is flagged: the rows before the     *)
(* window is full have no smoothed value, and every later row has the      *)
(* same smoothed value 50/30.                                              *)
C7_NoAnomaly ==
    (pc = "analyzed" /\ file = SpikeScenario /\ window = DefaultWindow) =>
        /\ anomalies = <<>>
        /\ \A i \in Rows :
              data[i].temperature =
                  IF i < DefaultWindow THEN NaN ELSE Rat(50, DefaultWindow)

C7_Witness ==
    /\ pc = "analyzed"
    /\ file = SpikeScenario
    /\ window = DefaultWindow
    /\ \E i \in Rows : IsPresent(i)

(* C8: with a defined baseline, a fetched value v is reported normal iff   *)
(* |v - mean| <= 2 * stddev for the group of the selected city and the     *)
(* season of that city's latest record, and anomalous otherwise.           *)
C8_LiveClassification ==
    (FetchedOk /\ BaselineDefined(city, LatestSeasonOf(city))) =>
        /\ pc = "done"
        /\ shown.status =
              IF Deviates(current_temp[1] * window, city, LatestSeasonOf(city))
              THEN "anomalous" ELSE "normal"

C8_Witness ==
    /\ FetchedOk
    /\ BaselineDefined(city, LatestSeasonOf(city))
    /\ LatestSeasonOfFile # LatestSeasonOf(city)
    /\ shown.status = "normal"

(* C9: a second run of the pipeline on the dataset the first run worked    *)
(* on yields the same seasonal statistics and the same anomalies.          *)
C9_SecondRunAgrees ==
    pc = "reanalyzed" =>
        /\ second.seasonal_stats = seasonal_stats
        /\ second.anomalies = anomalies

(* C10: the statistics of a group are those of its rows with a present     *)
(* smoothed value, in calculate_seasonal_statistics and in find_anomalies  *)
(* alike, and no row with an absent smoothed value is flagged.             *)
C10_AbsentValuesSkipped ==
    Computed =>
        /\ \A t \in 1..Len(seasonal_stats) :
              LET st == seasonal_stats[t]
                  n  == Count(st.city, st.season)
                  s1 == S1(st.city, st.season)
                  s2 == S2(st.city, st.season)
              IN  /\ st.mean = Rat(s1, n * window)
                  /\ st.std.sq = IF n < 2 THEN NaN
                                 ELSE Rat(n * s2 - s1 * s1,
                                          n * (n - 1) * window * window)
        /\ \A i \in Rows :
              /\ ~IsPresent(i) => ~Flagged(i)
              /\ IsPresent(i) =>
                    \E t \in 1..Len(seasonal_stats) :
                        LET st == seasonal_stats[t]
                        IN  /\ st.city = data[i].city
                            /\ st.season = data[i].season
                            /\ Flagged(i) <=>
                                  /\ ~IsNaN(st.std.sq)
                                  /\ ~WithinBand(data[i].temperature,
                                                 st.mean, st.std)

C10_Witness ==
    /\ Computed
    /\ \E i, j, k \in Rows :
          /\ SameGroup(i, j) /\ SameGroup(i, k)
          /\ ~IsPresent(i)
          /\ IsPresent(j) /\ IsPresent(k)
          /\ data[j].temperature # data[k].temperature

====
